---- MODULE Spec2Model ----
(***************************************************************************)
(* notanumber: bytes stored in the bit patterns of fp16 values.            *)
(* Model of notanumber/core.py: the four to_X / from_X codecs and the      *)
(* encode / decode facade, as operators over byte sequences, driven by a   *)
(* small state machine that applies them to bounded inputs.                *)
(***************************************************************************)
EXTENDS Integers, Sequences, FiniteSets, TLC

\* ---------------------------------------------------------------- constants
SIGN_BIT == 32768           \* 0x8000
EXPONENT_MASK == 31744      \* 0x7C00
MANTISSA_MASK == 1023       \* 0x03FF
INF_BITS == 31744           \* 0x7C00
NAN_QUIET == 32256          \* 0x7E00
PAYLOAD_MASK == 511         \* 0x01FF
MAX_INPUT_SIZE == 100 * 1024 * 1024

\* the literal 0x7E00 written out in from_nan and decode
QUIET_TOP7 == 32256

\* ------------------------------------------------------------------- bounds
MaxLen == 2        \* longest plaintext whose bytes are all enumerated
MaxShort == 2      \* longest stream (in units) enumerated unit by unit
SizeSlack == 2     \* plaintext lengths MAX_INPUT_SIZE - SizeSlack .. + SizeSlack

\* ------------------------------------------------------ python primitives
\* x & (1 << j) != 0
Bit(x, j) == (x \div (2 ^ j)) % 2

RECURSIVE AndFrom(_, _, _)
AndFrom(x, m, j) ==
  IF j > 15 THEN 0
  ELSE (IF Bit(x, j) = 1 /\ Bit(m, j) = 1 THEN 2 ^ j ELSE 0) + AndFrom(x, m, j + 1)

\* x & m on 16-bit values
BitAnd(x, m) == AndFrom(x, m, 0)

RECURSIVE OrFrom(_, _, _)
OrFrom(x, m, j) ==
  IF j > 15 THEN 0
  ELSE (IF Bit(x, j) = 1 \/ Bit(m, j) = 1 THEN 2 ^ j ELSE 0) + OrFrom(x, m, j + 1)

\* x | m on 16-bit values
BitOr(x, m) == OrFrom(x, m, 0)

\* struct.pack("<H", v): two bytes, low byte first
pack_H(v) == << v % 256, v \div 256 >>

\* struct.unpack("<H", data[i : i + 2])[0], i a 0-based byte offset
unpack_H(data, i) == data[i + 1] + 256 * data[i + 2]

\* struct.pack("<I", n): four bytes, low byte first
pack_I(n) == << n % 256, (n \div 256) % 256, (n \div 65536) % 256, (n \div 16777216) % 256 >>

\* struct.unpack("<I", b[:4])[0] for a value below 2^31
unpack_I(b) == b[1] + 256 * b[2] + 65536 * b[3] + 16777216 * b[4]

\* ------------------------------------------------------------- byte buffers
\* A plaintext is a bytes object.  It is held as its length and its leading
\* bytes; the bytes after the listed ones are 0x00.  Every plaintext whose
\* content matters lists all of its bytes (len = Len(body)).
DLen(d) == d.len
DByte(d, i) == IF i < Len(d.body) THEN d.body[i + 1] ELSE 0
Bytes(d) == [i \in 1..d.len |-> DByte(d, i - 1)]
Buf(s) == [len |-> Len(s), body |-> s]

\* the outcome of a call: a returned bytes object or a raised ValueError
Return(v) == [err |-> "none", val |-> v]
Raise(kind) == [err |-> kind, val |-> << >>]

\* a bytearray filled by ret.extend(struct.pack("<H", unit)) for n units
\* of the units unit[0], ..., unit[n - 1]
PackUnits(n, unit) ==
  [q \in 1..(2 * n) |-> pack_H(unit[(q - 1) \div 2])[((q - 1) % 2) + 1]]

\* variant: one unit more than the range has steps when the steps divide it
RangeCount_Extra(total, step) == (total \div step) + 1

\* number of elements of range(0, total, step)
RangeCount(total, step) == (total + step - 1) \div step

\* Each encoder is its size check, which raises or not, followed by the
\* packing loop, which cannot raise; X_raises is the first and X_ret the
\* bytes the second returns.
Outcome(raised, ret) == IF raised # "none" THEN Raise(raised) ELSE Return(ret)

\* ------------------------------------------------------- length framing
\* data_with_length = struct.pack("<I", len(data)) + data
FramedLen(data) == 4 + DLen(data)
\* variant: the plaintext bytes taken one position early
FramedByte_OffByOne(data, i) ==
  IF i < 4 THEN pack_I(DLen(data))[i + 1] ELSE DByte(data, i - 3)

FramedByte(data, i) == IF i < 4 THEN pack_I(DLen(data))[i + 1] ELSE DByte(data, i - 4)

\* the inner loop of to_nan / to_subnormal: bits i .. i+width-1 of the framed
\* buffer, bit j of the result taken from bit (i + j), zero past the end
RECURSIVE CollectBits(_, _, _, _)
CollectBits(data, i, width, j) ==
  IF j >= width THEN 0
  ELSE (IF (i + j) \div 8 < FramedLen(data)
           /\ Bit(FramedByte(data, (i + j) \div 8), (i + j) % 8) = 1
        THEN 2 ^ j ELSE 0) + CollectBits(data, i, width, j + 1)

\* ------------------------------------------------------------------ to_zero
to_zero_raises(data) ==
  IF DLen(data) > MAX_INPUT_SIZE THEN "InputTooLarge" ELSE "none"

to_zero_ret(data) ==
  PackUnits(8 * DLen(data),
    [k \in 0..(8 * DLen(data) - 1) |->
       IF Bit(DByte(data, k \div 8), k % 8) = 1 THEN SIGN_BIT ELSE 0])

to_zero(data) == Outcome(to_zero_raises(data), to_zero_ret(data))

\* ------------------------------------------------------------------- to_inf
to_inf_raises(data) ==
  IF DLen(data) > MAX_INPUT_SIZE THEN "InputTooLarge" ELSE "none"

to_inf_ret(data) ==
  PackUnits(8 * DLen(data),
    [k \in 0..(8 * DLen(data) - 1) |->
       IF Bit(DByte(data, k \div 8), k % 8) = 1
       THEN BitOr(INF_BITS, SIGN_BIT) ELSE INF_BITS])

to_inf(data) == Outcome(to_inf_raises(data), to_inf_ret(data))

\* ------------------------------------------------------------------- to_nan
to_nan_raises(data) ==
  IF DLen(data) > MAX_INPUT_SIZE THEN "InputTooLarge" ELSE "none"

to_nan_ret(data) ==
  PackUnits(RangeCount(FramedLen(data) * 8, 9),
    [k \in 0..(RangeCount(FramedLen(data) * 8, 9) - 1) |->
       BitOr(NAN_QUIET, CollectBits(data, 9 * k, 9, 0))])

to_nan(data) == Outcome(to_nan_raises(data), to_nan_ret(data))

\* variant: the limit itself rejected
to_subnormal_raises_GE(data) ==
  IF DLen(data) >= MAX_INPUT_SIZE THEN "InputTooLarge" ELSE "none"

\* ------------------------------------------------------------- to_subnormal
to_subnormal_raises(data) ==
  IF DLen(data) > MAX_INPUT_SIZE THEN "InputTooLarge" ELSE "none"

to_subnormal_ret(data) ==
  PackUnits(RangeCount(FramedLen(data) * 8, 10),
    [k \in 0..(RangeCount(FramedLen(data) * 8, 10) - 1) |->
       CollectBits(data, 10 * k, 10, 0)])

to_subnormal(data) == Outcome(to_subnormal_raises(data), to_subnormal_ret(data))

\* --------------------------------------------------------- decoding helpers
\* the k-th code unit (0-based) of a stream of bytes
UnitAt(data, k) == unpack_H(data, 2 * k)

\* a loop over the units that raises at the first unit whose check fails:
\* errs[k] is the check of unit k - 1, "none" when it passes
FirstErr(errs) ==
  LET bad == {k \in 1..Len(errs) : errs[k] # "none"} IN
  IF bad = {} THEN "none"
  ELSE errs[CHOOSE k \in bad : \A j \in bad : k <= j]


\* variant: the sign bit tested in place of the whole unit
zero_check_SignOnly(val) ==
  IF BitAnd(val, SIGN_BIT) # 0 THEN "none"
  ELSE IF val # 0 THEN "ImpureZero"
  ELSE "none"

\* ---------------------------------------------------------------- from_zero
zero_check(val) ==
  IF val = SIGN_BIT THEN "none"
  ELSE IF val # 0 THEN "ImpureZero"
  ELSE "none"

RECURSIVE zero_byte(_, _, _)
zero_byte(data, i, j) ==
  IF j >= 8 THEN 0
  ELSE (IF UnitAt(data, i + j) = SIGN_BIT THEN 2 ^ j ELSE 0) + zero_byte(data, i, j + 1)

from_zero(data) ==
  IF Len(data) % 2 # 0 THEN Raise("MalformedLength")
  ELSE LET num_values == Len(data) \div 2 IN
    IF num_values % 8 # 0 THEN Raise("MalformedLength")
    ELSE LET e == FirstErr([k \in 1..(Len(data) \div 2) |-> zero_check(UnitAt(data, k - 1))]) IN
      IF e # "none" THEN Raise(e)
      ELSE Return([b \in 1..(num_values \div 8) |-> zero_byte(data, 8 * (b - 1), 0)])

\* variant: the mantissa tested before the exponent
inf_check_MantissaFirst(val) ==
  IF BitAnd(val, MANTISSA_MASK) # 0 THEN "UnexpectedNan"
  ELSE IF BitAnd(val, EXPONENT_MASK) # INF_BITS THEN "NotInfinity"
  ELSE "none"

\* ----------------------------------------------------------------- from_inf
inf_check(val) ==
  IF BitAnd(val, EXPONENT_MASK) # INF_BITS THEN "NotInfinity"
  ELSE IF BitAnd(val, MANTISSA_MASK) # 0 THEN "UnexpectedNan"
  ELSE "none"

RECURSIVE inf_byte(_, _, _)
inf_byte(data, i, j) ==
  IF j >= 8 THEN 0
  ELSE (IF BitAnd(UnitAt(data, i + j), SIGN_BIT) # 0 THEN 2 ^ j ELSE 0)
       + inf_byte(data, i, j + 1)

from_inf(data) ==
  IF Len(data) % 2 # 0 THEN Raise("MalformedLength")
  ELSE LET num_values == Len(data) \div 2 IN
    IF num_values % 8 # 0 THEN Raise("MalformedLength")
    ELSE LET e == FirstErr([k \in 1..(Len(data) \div 2) |-> inf_check(UnitAt(data, k - 1))]) IN
      IF e # "none" THEN Raise(e)
      ELSE Return([b \in 1..(num_values \div 8) |-> inf_byte(data, 8 * (b - 1), 0)])

\* variant: a zero prefix taken to mean that everything after it is returned
Unframe_ZeroKeepsAll(result, kind) ==
  IF Len(result) >= 4
  THEN IF result[4] >= 128 THEN Raise(kind)
       ELSE LET length == unpack_I(result) IN
            IF length = 0 THEN Return(SubSeq(result, 5, Len(result)))
            ELSE IF 4 + length <= Len(result)
                 THEN Return(SubSeq(result, 5, 4 + length))
                 ELSE Raise(kind)
  ELSE Raise(kind)

\* variant: a prefix that fills the buffer exactly rejected
Unframe_Strict(result, kind) ==
  IF Len(result) >= 4
  THEN IF result[4] >= 128 THEN Raise(kind)
       ELSE LET length == unpack_I(result) IN
            IF length = 0 THEN Return(<< >>)
            ELSE IF 4 + length < Len(result)
                 THEN Return(SubSeq(result, 5, 4 + length))
                 ELSE Raise(kind)
  ELSE Raise(kind)

\* ------------------------------------------------------------- unframing
\* "Extract length and trim" at the end of from_nan / from_subnormal.
\* The prefix is a 32-bit unsigned value; one whose top byte is 128 or more
\* is at least 2^31: it is not 0 and 4 + length exceeds every buffer length,
\* so the code falls through to the raise.  It is told apart by that byte,
\* the number itself being outside the checker's integers.
Unframe(result, kind) ==
  IF Len(result) >= 4
  THEN IF result[4] >= 128 THEN Raise(kind)
       ELSE LET length == unpack_I(result) IN
            IF length = 0 THEN Return(<< >>)
            ELSE IF 4 + length <= Len(result)
                 THEN Return(SubSeq(result, 5, 4 + length))
                 ELSE Raise(kind)
  ELSE Raise(kind)

\* the byte of result at index b (0-based) after the unpack loop: bit bit_idx
\* is bit (bit_pos % width) of the payload of unit (bit_pos \div width),
\* for the bit positions the loop writes
RECURSIVE UnpackByte(_, _, _, _, _)
UnpackByte(data, mask, width, b, bit_idx) ==
  IF bit_idx >= 8 THEN 0
  ELSE LET bit_pos == 8 * b + bit_idx IN
       (IF bit_pos < (Len(data) \div 2) * width
           /\ Bit(BitAnd(UnitAt(data, bit_pos \div width), mask), bit_pos % width) = 1
        THEN 2 ^ bit_idx ELSE 0) + UnpackByte(data, mask, width, b, bit_idx + 1)

\* variant: the sign bit required to be clear as well
nan_check_Positive(val) ==
  IF BitAnd(val, SIGN_BIT + QUIET_TOP7) # QUIET_TOP7 THEN "NotQuietNan" ELSE "none"

\* variant: the exponent tested without mantissa bit 9
nan_check_ExponentOnly(val) ==
  IF BitAnd(val, EXPONENT_MASK) # EXPONENT_MASK THEN "NotQuietNan" ELSE "none"

\* ----------------------------------------------------------------- from_nan
nan_check(val) ==
  IF BitAnd(val, QUIET_TOP7) # QUIET_TOP7 THEN "NotQuietNan" ELSE "none"

nan_result(data) ==
  LET total_bits == (Len(data) \div 2) * 9 IN
  [b \in 1..((total_bits + 7) \div 8) |-> UnpackByte(data, PAYLOAD_MASK, 9, b - 1, 0)]

\* variant: the units checked before the byte count
from_nan_UnitsFirst(data) ==
  LET e == FirstErr([k \in 1..(Len(data) \div 2) |-> nan_check(UnitAt(data, k - 1))]) IN
  IF e # "none" THEN Raise(e)
  ELSE IF Len(data) % 2 # 0 THEN Raise("MalformedLength")
  ELSE Unframe(nan_result(data), "CorruptedHeader")

from_nan(data) ==
  IF Len(data) % 2 # 0 THEN Raise("MalformedLength")
  ELSE LET e == FirstErr([k \in 1..(Len(data) \div 2) |-> nan_check(UnitAt(data, k - 1))]) IN
    IF e # "none" THEN Raise(e)
    ELSE Unframe(nan_result(data), "CorruptedHeader")

\* variant: the sign tested before the exponent
subnormal_check_SignFirst(val) ==
  IF BitAnd(val, SIGN_BIT) # 0 THEN "WrongSign"
  ELSE IF BitAnd(val, EXPONENT_MASK) # 0 THEN "NotSubnormal"
  ELSE "none"

\* ----------------------------------------------------------- from_subnormal
subnormal_check(val) ==
  IF BitAnd(val, EXPONENT_MASK) # 0 THEN "NotSubnormal"
  ELSE IF BitAnd(val, SIGN_BIT) # 0 THEN "WrongSign"
  ELSE "none"

subnormal_result(data) ==
  LET total_bits == (Len(data) \div 2) * 10 IN
  [b \in 1..((total_bits + 7) \div 8) |-> UnpackByte(data, MANTISSA_MASK, 10, b - 1, 0)]

from_subnormal(data) ==
  IF Len(data) % 2 # 0 THEN Raise("MalformedLength")
  ELSE LET e == FirstErr([k \in 1..(Len(data) \div 2) |-> subnormal_check(UnitAt(data, k - 1))]) IN
    IF e # "none" THEN Raise(e)
    ELSE Unframe(subnormal_result(data), "CorruptedHeader")

\* ------------------------------------------------------------------- facade
Schemes == {"zero", "inf", "nan", "subnormal"}

to_raises(method, data) ==
  CASE method = "zero" -> to_zero_raises(data)
    [] method = "inf" -> to_inf_raises(data)
    [] method = "nan" -> to_nan_raises(data)
    [] method = "subnormal" -> to_subnormal_raises(data)

Dispatch_to(method, data) ==
  CASE method = "zero" -> to_zero(data)
    [] method = "inf" -> to_inf(data)
    [] method = "nan" -> to_nan(data)
    [] method = "subnormal" -> to_subnormal(data)

Dispatch_from(method, data) ==
  CASE method = "zero" -> from_zero(data)
    [] method = "inf" -> from_inf(data)
    [] method = "nan" -> from_nan(data)
    [] method = "subnormal" -> from_subnormal(data)

\* variant: the size tested before the selector
encode_raises_SizeFirst(data, method) ==
  IF DLen(data) > MAX_INPUT_SIZE THEN "InputTooLarge"
  ELSE IF method \notin Schemes THEN "UnknownScheme"
  ELSE to_raises(method, data)

\* what encode raises, "none" when it returns
encode_raises(data, method) ==
  IF method \notin Schemes THEN "UnknownScheme"
  ELSE to_raises(method, data)

encode(data, method) ==
  IF encode_raises(data, method) # "none" THEN Raise(encode_raises(data, method))
  ELSE Dispatch_to(method, data)

\* variant: the zero-exponent test made before the signed-zero test
Detect_ExponentFirst(first) ==
  IF BitAnd(first, EXPONENT_MASK) = 0 THEN "subnormal"
  ELSE IF first = 0 \/ first = SIGN_BIT THEN "zero"
  ELSE IF BitAnd(first, EXPONENT_MASK) = INF_BITS /\ BitAnd(first, MANTISSA_MASK) = 0
       THEN "inf"
  ELSE IF BitAnd(first, QUIET_TOP7) = QUIET_TOP7 THEN "nan"
  ELSE "unrecognized"

\* the scheme chosen by decode(data, "auto") from the first unit
Detect(first) ==
  IF first = 0 \/ first = SIGN_BIT THEN "zero"
  ELSE IF BitAnd(first, EXPONENT_MASK) = INF_BITS /\ BitAnd(first, MANTISSA_MASK) = 0
       THEN "inf"
  ELSE IF BitAnd(first, QUIET_TOP7) = QUIET_TOP7 THEN "nan"
  ELSE IF BitAnd(first, EXPONENT_MASK) = 0 THEN "subnormal"
  ELSE "unrecognized"

decode(data, method) ==
  IF method = "auto"
  THEN IF Len(data) < 2 THEN Raise("InsufficientData")
       ELSE LET m == Detect(unpack_H(data, 0)) IN
            IF m = "unrecognized" THEN Raise("UnrecognizedPattern")
            ELSE Dispatch_from(m, data)
  ELSE IF method \notin Schemes THEN Raise("UnknownScheme")
  ELSE Dispatch_from(method, data)

\* ------------------------------------------------------------------- inputs
\* byte values the enumerated plaintexts are made of
PlainBytes == {0, 1, 170, 255}

RECURSIVE SeqsUpTo(_, _)
SeqsUpTo(S, n) ==
  IF n = 0 THEN {<< >>}
  ELSE LET shorter == SeqsUpTo(S, n - 1) IN
       shorter \cup {Append(t, x) : t \in {u \in shorter : Len(u) = n - 1}, x \in S}

SmallPlaintexts == {Buf(b) : b \in SeqsUpTo(PlainBytes, MaxLen)}

\* plaintexts whose length is a multiple of 512: the listed bytes, then 0x00
LongLens == {512, 1024}
LongPlaintexts == {[len |-> n, body |-> b] : n \in LongLens, b \in {<< >>, << 255 >>}}

\* plaintexts just over the limit
OversizePlaintexts ==
  {[len |-> MAX_INPUT_SIZE + d, body |-> b] : d \in 1..SizeSlack, b \in {<< >>, << 255 >>}}

Plaintexts == SmallPlaintexts \cup LongPlaintexts \cup OversizePlaintexts

\* plaintext lengths on both sides of the limit
BoundaryPlaintexts ==
  {[len |-> MAX_INPUT_SIZE + d, body |-> b] :
     d \in (0 - SizeSlack)..SizeSlack, b \in {<< >>, << 0 >>, << 255 >>}}

\* scheme selectors: the four schemes, the auto sentinel, unknown names
BadNames == {"invalid", "", "NaN"}
Selectors == Schemes \cup {"auto"} \cup BadNames

\* code units: signed zeros, infinities, quiet and signalling NaNs with either
\* sign, subnormals with either sign, normal numbers with either sign
UnitVals == {0, 32768, 31744, 64512, 32256, 32257, 65535, 32000,
             1, 1023, 32769, 15360, 48129}
ShortVals == {0, 32768, 64512, 32256, 65535, 1, 15361}

RECURSIVE Flatten(_)
Flatten(units) ==
  IF units = << >> THEN << >> ELSE pack_H(Head(units)) \o Flatten(Tail(units))

\* streams of a few arbitrary units, and the same with one more byte
ShortStreams == {Flatten(u) : u \in SeqsUpTo(ShortVals, MaxShort)}
OddStreams == {s \o << b >> : s \in ShortStreams, b \in {0, 126}}

\* streams the encoders produce, with one or two units overwritten
BasePlaintexts == {Buf(<< >>), Buf(<< 166 >>)}
BaseStreams == {encode(p, s).val : p \in BasePlaintexts, s \in Schemes}

SetUnit(data, k, v) ==
  [q \in 1..Len(data) |->
     IF q = 2 * k + 1 THEN pack_H(v)[1]
     ELSE IF q = 2 * k + 2 THEN pack_H(v)[2]
     ELSE data[q]]

Corrupt1(base) ==
  {SetUnit(base, k, v) : k \in 0..((Len(base) \div 2) - 1), v \in UnitVals}
Corrupt2(base) ==
  {SetUnit(SetUnit(base, i, u), j, v) :
     i \in 0..((Len(base) \div 2) - 1), j \in 0..((Len(base) \div 2) - 1),
     u \in UnitVals, v \in ShortVals}
CorruptedStreams == UNION {Corrupt1(b) \cup Corrupt2(b) : b \in BaseStreams}

Streams == ShortStreams \cup OddStreams \cup BaseStreams \cup CorruptedStreams

\* -------------------------------------------------------------------- state
VARIABLES pc, data, stream, method, enc, dec
vars == << pc, data, stream, method, enc, dec >>

NoCall == [err |-> "nocall", val |-> << >>]

\* the caller holds either a plaintext to encode or a stream to decode
Init ==
  /\ method = "unset"
  /\ enc = NoCall
  /\ dec = NoCall
  /\ \/ pc = "plain" /\ data \in Plaintexts /\ stream = << >>
     \/ pc = "wire" /\ data = Buf(<< >>) /\ stream \in Streams

\* encode(data, m)
Encode(m) ==
  /\ pc = "plain"
  /\ pc' = "encoded"
  /\ method' = m
  /\ enc' = encode(data, m)
  /\ UNCHANGED << data, stream, dec >>

\* to_zero(data), to_inf(data), to_nan(data), to_subnormal(data)
To(s) ==
  /\ pc = "plain"
  /\ pc' = "packed"
  /\ method' = s
  /\ enc' = Dispatch_to(s, data)
  /\ UNCHANGED << data, stream, dec >>

\* decode(encode(data, m), m)
DecodeBack ==
  /\ pc = "encoded" /\ enc.err = "none"
  /\ pc' = "decoded"
  /\ dec' = decode(enc.val, method)
  /\ UNCHANGED << data, stream, method, enc >>

\* decode(encode(data, m), "auto")
DecodeAuto ==
  /\ pc = "encoded" /\ enc.err = "none"
  /\ pc' = "autodecoded"
  /\ dec' = decode(enc.val, "auto")
  /\ UNCHANGED << data, stream, method, enc >>

\* from_s(to_s(data))
FromBack ==
  /\ pc = "packed" /\ enc.err = "none"
  /\ pc' = "unpacked"
  /\ dec' = Dispatch_from(method, enc.val)
  /\ UNCHANGED << data, stream, method, enc >>

\* decode(stream, m) on a stream from anywhere
Decode(m) ==
  /\ pc = "wire"
  /\ pc' = "wire_decoded"
  /\ method' = m
  /\ dec' = decode(stream, m)
  /\ UNCHANGED << data, stream, enc >>

\* from_zero(stream), from_inf(stream), from_nan(stream), from_subnormal(stream)
From(s) ==
  /\ pc = "wire"
  /\ pc' = "wire_unpacked"
  /\ method' = s
  /\ dec' = Dispatch_from(s, stream)
  /\ UNCHANGED << data, stream, enc >>

Next ==
  \/ \E m \in Selectors : Encode(m)
  \/ \E s \in Schemes : To(s)
  \/ DecodeBack
  \/ DecodeAuto
  \/ FromBack
  \/ \E m \in Selectors : Decode(m)
  \/ \E s \in Schemes : From(s)

Spec == Init /\ [][Next]_vars

\* ------------------------------------------------- plaintexts at the limit
\* A call on a plaintext at the limit is followed up to its raise or its
\* return: the stream a successful call returns has up to
\* 16 * MAX_INPUT_SIZE bytes and is not formed.
AtLimit(raised) == [err |-> raised, val |-> << >>]

InitSize ==
  /\ pc = "plain"
  /\ data \in BoundaryPlaintexts
  /\ stream = << >>
  /\ method = "unset"
  /\ enc = NoCall
  /\ dec = NoCall

\* encode(data, m), len(data) within SizeSlack of MAX_INPUT_SIZE
EncodeSize(m) ==
  /\ pc = "plain"
  /\ pc' = "encoded"
  /\ method' = m
  /\ enc' = AtLimit(encode_raises(data, m))
  /\ UNCHANGED << data, stream, dec >>

\* to_s(data), len(data) within SizeSlack of MAX_INPUT_SIZE
ToSize(s) ==
  /\ pc = "plain"
  /\ pc' = "packed"
  /\ method' = s
  /\ enc' = AtLimit(to_raises(s, data))
  /\ UNCHANGED << data, stream, dec >>

NextSize ==
  \/ \E m \in Selectors : EncodeSize(m)
  \/ \E s \in Schemes : ToSize(s)

SpecSize == InitSize /\ [][NextSize]_vars

\* ------------------------------------------------ every first code unit
\* Streams for decode(stream, "auto"): fewer than two bytes, or any of the
\* 65536 first units followed by seven units of one kind.
AllUnits == 0..65535
AutoTails == {Flatten([k \in 1..7 |-> u]) : u \in {0, 64512, 32256}}
TinyStreams == {<< >>, << 0 >>, << 126 >>}
AutoStreams == TinyStreams \cup {pack_H(v) \o t : v \in AllUnits, t \in AutoTails}

InitAuto ==
  /\ pc = "wire"
  /\ data = Buf(<< >>)
  /\ stream \in AutoStreams
  /\ method = "unset"
  /\ enc = NoCall
  /\ dec = NoCall

NextAuto == Decode("auto")

SpecAuto == InitAuto /\ [][NextAuto]_vars

\* =================================================================== claims
Encoded == pc \in {"encoded", "packed"} /\ enc.err = "none"
NumUnits(bytes) == Len(bytes) \div 2

\* C1: a plaintext encoded with a scheme and decoded with the same scheme,
\* through encode / decode or through to_s / from_s, comes back unchanged.
C1_RoundTrip ==
  pc \in {"decoded", "unpacked"} => dec = Return(Bytes(data))

C1_Witness ==
  /\ pc = "decoded" /\ method = "subnormal"
  /\ data = Buf(<< 255, 0 >>)
  /\ dec = Return(<< 255, 0 >>)

\* C2: a non-empty plaintext encoded with any scheme and decoded with "auto"
\* comes back unchanged.
C2_AutoRoundTrip ==
  (pc = "autodecoded" /\ DLen(data) >= 1) => dec = Return(Bytes(data))

\* C3: the number of units depends on the plaintext length and the scheme
\* only: 8n for zero and inf, ceil((32 + 8n) / 9) for nan and
\* ceil((32 + 8n) / 10) for subnormal, and the payload bits of the last unit
\* past bit 32 + 8n of the framed plaintext are 0.
PaddingClear(bytes, width, payload) ==
  \A j \in 0..(width - 1) :
     width * (NumUnits(bytes) - 1) + j >= payload
        => Bit(UnitAt(bytes, NumUnits(bytes) - 1), j) = 0

C3_EncodedSize ==
  Encoded =>
    LET n == DLen(data)
        units == NumUnits(enc.val)
    IN /\ Len(enc.val) = 2 * units
       /\ method \in {"zero", "inf"} => units = 8 * n /\ units % 8 = 0
       /\ method = "nan" =>
            /\ 9 * units >= 32 + 8 * n /\ 9 * (units - 1) < 32 + 8 * n
            /\ PaddingClear(enc.val, 9, 32 + 8 * n)
       /\ method = "subnormal" =>
            /\ 10 * units >= 32 + 8 * n /\ 10 * (units - 1) < 32 + 8 * n
            /\ PaddingClear(enc.val, 10, 32 + 8 * n)

C3_Witness ==
  /\ pc = "encoded" /\ method = "nan" /\ enc.err = "none"
  /\ DLen(data) = 1 /\ NumUnits(enc.val) = 5
  /\ UnitAt(enc.val, 4) < NAN_QUIET + 16

\* C4: every scheme accepts a plaintext of MAX_INPUT_SIZE bytes and raises
\* InputTooLarge, returning nothing, for a longer one.
C4_SizeBoundary ==
  (pc \in {"encoded", "packed"} /\ method \in Schemes) =>
     /\ DLen(data) <= MAX_INPUT_SIZE => enc.err = "none"
     /\ DLen(data) > MAX_INPUT_SIZE => enc = Raise("InputTooLarge")

C4_Witness ==
  /\ pc = "encoded" /\ method = "subnormal"
  /\ DLen(data) = MAX_INPUT_SIZE /\ enc.err = "none"

\* C5: encode raises UnknownScheme for every selector that is not one of the
\* four schemes, "auto" included, and decode for every selector that is
\* neither a scheme nor "auto", whatever the data.
C5_UnknownScheme ==
  /\ (pc = "encoded" /\ method \notin Schemes) => enc = Raise("UnknownScheme")
  /\ (pc = "wire_decoded" /\ method \notin (Schemes \cup {"auto"}))
        => dec = Raise("UnknownScheme")

C5_Witness ==
  /\ pc = "encoded" /\ method = "auto"
  /\ DLen(data) > MAX_INPUT_SIZE
  /\ enc = Raise("UnknownScheme")

\* the units of a stream of whole units, and its payload bits read as bytes
WholeUnits(bytes) == Len(bytes) % 2 = 0
UnitsOf(bytes) == [k \in 1..NumUnits(bytes) |-> bytes[2 * k - 1] + 256 * bytes[2 * k]]
PayloadBit(units, width, t) == (units[(t \div width) + 1] \div (2 ^ (t % width))) % 2
RECURSIVE BitsToByte(_, _, _, _)
BitsToByte(units, width, b, i) ==
  IF i = 8 \/ 8 * b + i >= width * Len(units) THEN 0
  ELSE PayloadBit(units, width, 8 * b + i) * (2 ^ i) + BitsToByte(units, width, b, i + 1)
Recovered(units, width) ==
  [b \in 1..((width * Len(units) + 7) \div 8) |-> BitsToByte(units, width, b - 1, 0)]

IsQuietNan(u) == (u \div 512) % 64 = 63
IsNonNegSubnormal(u) == u < 1024
Called(s) == pc \in {"wire_decoded", "wire_unpacked"} /\ method = s

\* the length prefix of R says more bytes follow than R holds
PrefixTooLong(R) ==
  \/ R[4] >= 128
  \/ /\ R[1] + R[2] + R[3] + R[4] > 0
     /\ R[1] + 256 * R[2] + 65536 * R[3] + 16777216 * R[4] > Len(R) - 4

HeaderRule(R) ==
  IF Len(R) < 4 \/ PrefixTooLong(R)
  THEN dec = Raise("CorruptedHeader")
  ELSE dec = Return([i \in 1..(R[1] + 256 * R[2] + 65536 * R[3] + 16777216 * R[4])
                       |-> R[4 + i]])

\* C6: on a stream of valid units from_nan and from_subnormal raise
\* CorruptedHeader exactly when the recovered bytes R are fewer than 4 or
\* their prefix L is not 0 and 4 + L > len(R); otherwise they return
\* R[4 .. 4 + L).
C6_HeaderValidation ==
  /\ (Called("nan") /\ WholeUnits(stream)
        /\ \A k \in 1..NumUnits(stream) : IsQuietNan(UnitsOf(stream)[k]))
       => HeaderRule(Recovered([k \in 1..NumUnits(stream) |-> UnitsOf(stream)[k] % 512], 9))
  /\ (Called("subnormal") /\ WholeUnits(stream)
        /\ \A k \in 1..NumUnits(stream) : IsNonNegSubnormal(UnitsOf(stream)[k]))
       => HeaderRule(Recovered(UnitsOf(stream), 10))

C6_Witness ==
  /\ pc = "wire_unpacked" /\ method = "nan"
  /\ NumUnits(stream) = 5 /\ WholeUnits(stream)
  /\ \A k \in 1..5 : IsQuietNan(UnitsOf(stream)[k])
  /\ UnitsOf(stream)[1] = 32257
  /\ dec.err = "none" /\ Len(dec.val) = 1

\* C7: on a stream of a multiple of 8 units from_zero raises ImpureZero iff
\* some unit is neither 0x0000 nor 0x8000; otherwise bit j of byte i of the
\* result is 1 exactly when unit 8i + j is 0x8000.
C7_ZeroPurity ==
  (Called("zero") /\ WholeUnits(stream) /\ NumUnits(stream) % 8 = 0) =>
    LET u == UnitsOf(stream) IN
    IF \E k \in 1..Len(u) : u[k] \notin {0, 32768}
    THEN dec = Raise("ImpureZero")
    ELSE /\ dec.err = "none"
         /\ Len(dec.val) = Len(u) \div 8
         /\ \A i \in 0..(Len(dec.val) - 1) : \A j \in 0..7 :
               (Bit(dec.val[i + 1], j) = 1) <=> (u[8 * i + j + 1] = 32768)

C7_Witness ==
  /\ pc = "wire_unpacked" /\ method = "zero" /\ NumUnits(stream) = 8
  /\ WholeUnits(stream)
  /\ UnitsOf(stream)[3] = 64512
  /\ dec = Raise("ImpureZero")

\* the first unit of a stream that fails a test
FirstFailing(u, Ok(_)) ==
  CHOOSE k \in 1..Len(u) : ~Ok(u[k]) /\ \A i \in 1..(k - 1) : Ok(u[i])
ExponentOf(u) == (u \div 1024) % 32
MantissaOf(u) == u % 1024
SignOf(u) == u \div 32768

\* C8: on a stream of a multiple of 8 units from_inf returns iff every unit
\* is 0x7C00 or 0xFC00; otherwise the first unit that is neither decides:
\* NotInfinity if its exponent is not all ones, UnexpectedNan if it is.
C8_InfErrors ==
  (Called("inf") /\ WholeUnits(stream) /\ NumUnits(stream) % 8 = 0) =>
    LET u == UnitsOf(stream)
        IsInf(x) == x \in {31744, 64512}
    IN IF \A k \in 1..Len(u) : IsInf(u[k])
       THEN dec.err = "none"
       ELSE LET bad == u[FirstFailing(u, IsInf)] IN
            IF ExponentOf(bad) # 31
            THEN dec = Raise("NotInfinity")
            ELSE dec = Raise("UnexpectedNan")

C8_Witness ==
  /\ pc = "wire_unpacked" /\ method = "inf" /\ NumUnits(stream) = 8
  /\ WholeUnits(stream)
  /\ \E i \in 1..8 : \E j \in 1..8 :
        /\ i < j
        /\ UnitsOf(stream)[i] = 48129
        /\ UnitsOf(stream)[j] = 65535
        /\ \A k \in 1..(i - 1) : UnitsOf(stream)[k] \in {31744, 64512}
  /\ dec = Raise("NotInfinity")

\* C9: from_subnormal rejects the first unit outside 0x0000..0x03FF:
\* NotSubnormal if its exponent is not 0, WrongSign if its exponent is 0 and
\* its sign bit is set, also when the header would be corrupt as well.
C9_SubnormalErrors ==
  (Called("subnormal") /\ WholeUnits(stream)) =>
    LET u == UnitsOf(stream) IN
    IF \A k \in 1..Len(u) : IsNonNegSubnormal(u[k])
    THEN dec.err \in {"none", "CorruptedHeader"}
    ELSE LET bad == u[FirstFailing(u, IsNonNegSubnormal)] IN
         IF ExponentOf(bad) # 0
         THEN dec = Raise("NotSubnormal")
         ELSE SignOf(bad) = 1 /\ dec = Raise("WrongSign")

C9_Witness ==
  /\ pc = "wire_unpacked" /\ method = "subnormal"
  /\ NumUnits(stream) = 2 /\ WholeUnits(stream)
  /\ UnitsOf(stream) = << 32768, 15361 >>
  /\ dec = Raise("WrongSign")

\* C10: from_nan raises NotQuietNan iff some unit's bits under 0x7E00 are not
\* all set; a stream with such a unit neither returns nor raises
\* CorruptedHeader.
C10_NanErrors ==
  (Called("nan") /\ WholeUnits(stream)) =>
    ((dec.err = "NotQuietNan") <=>
        \E k \in 1..NumUnits(stream) : ~IsQuietNan(UnitsOf(stream)[k]))

C10_Witness ==
  /\ pc = "wire_unpacked" /\ method = "nan"
  /\ NumUnits(stream) = 2 /\ WholeUnits(stream)
  /\ UnitsOf(stream) = << 32256, 1 >>
  /\ dec = Raise("NotQuietNan")

\* the scheme the first unit v stands for, by the four rules in order
Classify(v) ==
  IF v \in {0, 32768} THEN "zero"
  ELSE IF ExponentOf(v) = 31 /\ MantissaOf(v) = 0 THEN "inf"
  ELSE IF IsQuietNan(v) THEN "nan"
  ELSE IF ExponentOf(v) = 0 THEN "subnormal"
  ELSE "no rule"

\* C11: decode(data, "auto") raises InsufficientData below two bytes;
\* otherwise the first unit alone picks zero, inf, nan or subnormal by the
\* first matching rule and the call behaves as decode with that scheme, or
\* raises UnrecognizedPattern when no rule matches.
C11_AutoClassification ==
  (pc = "wire_decoded" /\ method = "auto") =>
    IF Len(stream) < 2 THEN dec = Raise("InsufficientData")
    ELSE LET m == Classify(stream[1] + 256 * stream[2]) IN
         IF m = "no rule" THEN dec = Raise("UnrecognizedPattern")
         ELSE dec = Dispatch_from(m, stream)

C11_Witness ==
  /\ pc = "wire_decoded" /\ method = "auto"
  /\ Len(stream) = 16
  /\ stream[1] + 256 * stream[2] = 32768
  /\ \A k \in 2..8 : UnitsOf(stream)[k] = 0
  /\ dec = Return(<< 1 >>)

\* C12: every from_s raises MalformedLength on an odd number of bytes, and
\* from_zero and from_inf also on a number of units that is not a multiple
\* of 8, whatever the units are.
C12_LengthFirst ==
  (pc \in {"wire_decoded", "wire_unpacked"} /\ method \in Schemes) =>
     /\ ~WholeUnits(stream) => dec = Raise("MalformedLength")
     /\ (method \in {"zero", "inf"} /\ NumUnits(stream) % 8 # 0)
           => dec = Raise("MalformedLength")

C12_Witness ==
  /\ pc = "wire_unpacked" /\ method = "nan"
  /\ stream = << 1, 0, 1, 60, 126 >>
  /\ dec = Raise("MalformedLength")

\* the low width bits of every unit, and whether the first 32 of the bits
\* they carry are there and all 0
Payloads(bytes, width) == [k \in 1..NumUnits(bytes) |-> UnitsOf(bytes)[k] % (2 ^ width)]
ZeroPrefix(bytes, width) ==
  LET R == Recovered(Payloads(bytes, width), width) IN
  Len(R) >= 4 /\ R[1] = 0 /\ R[2] = 0 /\ R[3] = 0 /\ R[4] = 0
\* the units that carry the 32 prefix bits: the first four
Carriers(bytes) == {k \in 1..NumUnits(bytes) : k <= 4}

\* C13 as stated: in from_nan and from_subnormal a recovered length prefix
\* of 0 gives the empty plaintext whatever the units and payload bits after
\* those carrying the prefix are.
C13_ZeroPrefixAlone ==
  /\ (Called("nan") /\ WholeUnits(stream) /\ ZeroPrefix(stream, 9)
        /\ \A k \in Carriers(stream) : IsQuietNan(UnitsOf(stream)[k]))
       => dec = Return(<< >>)
  /\ (Called("subnormal") /\ WholeUnits(stream) /\ ZeroPrefix(stream, 10)
        /\ \A k \in Carriers(stream) : IsNonNegSubnormal(UnitsOf(stream)[k]))
       => dec = Return(<< >>)

\* C13 (amended): a recovered length prefix of 0 gives the empty plaintext
\* whatever the payload bits after the prefix are, provided every unit of
\* the stream is valid; an invalid unit after the prefix raises its unit
\* error.
C13_ZeroPrefixValid ==
  /\ (Called("nan") /\ WholeUnits(stream) /\ ZeroPrefix(stream, 9)
        /\ \A k \in Carriers(stream) : IsQuietNan(UnitsOf(stream)[k]))
       => IF \A k \in 1..NumUnits(stream) : IsQuietNan(UnitsOf(stream)[k])
          THEN dec = Return(<< >>)
          ELSE dec = Raise("NotQuietNan")
  /\ (Called("subnormal") /\ WholeUnits(stream) /\ ZeroPrefix(stream, 10)
        /\ \A k \in Carriers(stream) : IsNonNegSubnormal(UnitsOf(stream)[k]))
       => IF \A k \in 1..NumUnits(stream) : IsNonNegSubnormal(UnitsOf(stream)[k])
          THEN dec = Return(<< >>)
          ELSE dec.err \in {"NotSubnormal", "WrongSign"}

C13_Witness ==
  /\ pc = "wire_unpacked" /\ method = "nan"
  /\ WholeUnits(stream) /\ NumUnits(stream) = 5
  /\ ZeroPrefix(stream, 9)
  /\ UnitsOf(stream)[5] = 65535
  /\ \A k \in 1..4 : IsQuietNan(UnitsOf(stream)[k])
  /\ dec = Return(<< >>)

\* the stream with bit 15 set in the units numbered in S (from 1)
WithSigns(bytes, S) ==
  [q \in 1..Len(bytes) |->
     IF q % 2 = 0 /\ (q \div 2) \in S /\ bytes[q] < 128 THEN bytes[q] + 128
     ELSE bytes[q]]

\* C14: a stream from_nan accepts is accepted, with the same plaintext, by
\* from_nan and by decode(..., "auto") after bit 15 is set in any of its
\* units; to_nan emits no unit with bit 15 set.
C14_NanSignIgnored ==
  /\ (Called("nan") /\ dec.err = "none") =>
       \A S \in SUBSET (1..NumUnits(stream)) :
          /\ from_nan(WithSigns(stream, S)) = dec
          /\ decode(WithSigns(stream, S), "auto") = dec
  /\ (Encoded /\ method = "nan") =>
       \A k \in 1..NumUnits(enc.val) : UnitsOf(enc.val)[k] < 32768

C14_Witness ==
  /\ pc = "wire_unpacked" /\ method = "nan"
  /\ NumUnits(stream) = 5
  /\ UnitsOf(stream)[1] = 32257
  /\ UnitsOf(stream)[5] = 65535
  /\ dec.err = "none" /\ Len(dec.val) = 1
  /\ from_nan(WithSigns(stream, {1, 3})) = dec

====
